---- MODULE Spec2Model ----
(***************************************************************************)
(* The session-driven page routes of lineup-list (src/routes/pages.ts):    *)
(* GET /customize, GET /personalized-lineup, GET /generate-playlist-success *)
(* running as async handlers of one Node process that talks to the session *)
(* store through one redis connection.                                     *)
(*                                                                         *)
(* A string the code parses, splits or joins is a sequence of one-letter   *)
(* strings; a string the code only compares is a TLA+ string.  A hash of   *)
(* the store, a query and an object are functions from the names of the    *)
(* fields that are present; a redis hash exists iff it has a field, so the *)
(* function with the empty domain is "no hash" and, as a handler's local,  *)
(* the null that getSessionData resolves to.                               *)
(***************************************************************************)
EXTENDS Integers, Sequences, FiniteSets, TLC

(***************************************************************************)
(* Bounds                                                                  *)
(***************************************************************************)
\* handlers that may be between their first line and their response at once
MaxInFlight == 2

(***************************************************************************)
(* JavaScript built-ins the handlers use                                   *)
(***************************************************************************)
Digits == <<"0", "1", "2", "3", "4", "5", "6", "7", "8", "9">>

IsDigit(c) == \E d \in 1..10 : Digits[d] = c

DigitVal(c) == (CHOOSE d \in 1..10 : Digits[d] = c) - 1

\* Number.NaN; every number of the model is a natural
NaN == -1

isNaN(v) == v = NaN

RECURSIVE ParseDigits(_, _)
ParseDigits(s, acc) ==
    IF s = <<>> \/ ~IsDigit(Head(s)) THEN acc
    ELSE ParseDigits(Tail(s), acc * 10 + DigitVal(Head(s)))

\* parseInt(s, 10): the value of the longest prefix of digits, NaN if none
parseInt(s) == IF s = <<>> \/ ~IsDigit(Head(s)) THEN NaN ELSE ParseDigits(s, 0)

RECURSIVE toString(_)
\* Number.prototype.toString / String(n) of a natural
toString(n) ==
    IF n = NaN THEN <<"N", "a", "N">>
    ELSE IF n < 10 THEN <<Digits[n + 1]>>
    ELSE toString(n \div 10) \o <<Digits[(n % 10) + 1]>>

RECURSIVE SplitFrom(_, _)
\* s.split(","), with cur the piece read so far
SplitFrom(s, cur) ==
    IF s = <<>> THEN <<cur>>
    ELSE IF Head(s) = "," THEN <<cur>> \o SplitFrom(Tail(s), <<>>)
    ELSE SplitFrom(Tail(s), Append(cur, Head(s)))

split(s) == SplitFrom(s, <<>>)

RECURSIVE join(_)
\* list.join(",")
join(list) ==
    IF list = <<>> THEN <<>>
    ELSE IF Len(list) = 1 THEN list[1]
    ELSE list[1] \o <<",">> \o join(Tail(list))

\* list.includes(x)
includes(list, x) == \E i \in 1..Len(list) : list[i] = x

RECURSIVE concatAll(_)
\* the concatenation of a list of lists
concatAll(lists) == IF lists = <<>> THEN <<>> ELSE Head(lists) \o concatAll(Tail(lists))

RECURSIVE firstOccurrences(_, _)
\* the elements of list in order, each kept at its first occurrence (Map.set
\* guarded by !Map.has); seen is what was kept so far
firstOccurrences(list, seen) ==
    IF list = <<>> THEN seen
    ELSE firstOccurrences(Tail(list),
                          IF includes(seen, Head(list)) THEN seen
                          ELSE Append(seen, Head(list)))

\* an optional value: null, or the value
Null == <<>>

Some(x) == <<x>>

(***************************************************************************)
(* Objects as functions of the fields that are present                     *)
(***************************************************************************)
NoFields == [f \in {} |-> ""]

Has(obj, f) == f \in DOMAIN obj

\* {...obj, ...upd}, and HMSET on a hash
Merged(obj, upd) ==
    [f \in DOMAIN obj \cup DOMAIN upd |-> IF f \in DOMAIN upd THEN upd[f] ELSE obj[f]]

\* HDEL on a hash
Without(obj, fs) == [f \in DOMAIN obj \ fs |-> obj[f]]

(***************************************************************************)
(* The festival catalog and the lineup metadata                            *)
(***************************************************************************)
supportedFestivals ==
    << [name |-> "coachella", display_name |-> "Coachella", region |-> "us",
        years |-> <<2023, 2024>>],
       [name |-> "glastonbury", display_name |-> "Glastonbury", region |-> "uk",
        years |-> <<2024>>] >>

mainGenres == << <<"r", "o", "c", "k">>, <<"p", "o", "p">> >>

\* redisHelper.getArtistsForFestival
getArtistsForFestival(name, year) ==
    IF name = "coachella"
    THEN << [id |-> <<"a", "1">>,
             combined_genres |-> << <<"r", "o", "c", "k">>, <<"e", "m", "o">> >>],
            [id |-> <<"a", "2">>,
             combined_genres |-> << <<"e", "m", "o">>, <<"p", "o", "p">> >>] >>
    ELSE IF name = "glastonbury"
    THEN << [id |-> <<"b">>, combined_genres |-> << <<"r", "o", "c", "k">> >>] >>
    ELSE <<>>

\* redisHelper.getLineupDays
getLineupDays(name, year) ==
    IF name = "coachella" THEN <<1, 2>>
    ELSE IF name = "glastonbury" THEN <<1>>
    ELSE <<>>

FindEditionByNameOnly(name, year) ==
    SelectSeq(supportedFestivals, LAMBDA x : x.name = name)

\* supportedFestivals.filter(x => x.name === name && x.years.includes(year)):
\* the handlers take [0] of it, undefined when it is empty
FindEdition(name, year) ==
    SelectSeq(supportedFestivals, LAMBDA x : x.name = name /\ includes(x.years, year))

(***************************************************************************)
(* The session store                                                       *)
(***************************************************************************)
Sids == {"A", "B"}

sessionKeyOfFirst(sid) == <<"sessionData", "A">>

\* `sessionData:${req.sessionUid}`
sessionKey(sid) == <<"sessionData", sid>>

Keys == {<<"sessionData", s>> : s \in Sids}

NumberFields == {"festivalYear", "tracksPerArtist"}

\* what HMSET stores of an object: every value as a string
Stringified(obj) ==
    [f \in DOMAIN obj |-> IF f \in NumberFields THEN toString(obj[f]) ELSE obj[f]]

\* redisHelper.getSessionData on the reply of HGETALL: null for no hash, else
\* the hash with its numeric fields parsed
getSessionData(hash) ==
    [f \in DOMAIN hash |-> IF f \in NumberFields THEN parseInt(hash[f]) ELSE hash[f]]

isNullNever(sessionData) == FALSE

\* sessionData === null
isNull(sessionData) == DOMAIN sessionData = {}

hgetall(key, by) == [op |-> "hgetall", key |-> key, by |-> by, del |-> {}, set |-> NoFields]

hdel(key, by, fields) == [op |-> "hdel", key |-> key, by |-> by, del |-> fields, set |-> NoFields]

hmset(key, by, obj) ==
    [op |-> "hmset", key |-> key, by |-> by, del |-> {}, set |-> Stringified(obj)]

(***************************************************************************)
(* State                                                                   *)
(***************************************************************************)
VARIABLES
    store,   \* the redis hashes, by key
    conn,    \* the commands sent on the connection and not yet executed, in order
    reqs     \* the handlers in flight, by slot

vars == <<store, conn, reqs>>

Slots == 1..MaxInFlight

NoSelections == [artists |-> Null, genres |-> Null, days |-> Null]

Idle ==
    [route |-> "idle", sid |-> "", query |-> NoFields, pc |-> "idle",
     sessionData |-> NoFields, arm |-> "", fieldsRead |-> {}, festival |-> <<>>, queryYear |-> 0,
     previouslySelected |-> NoSelections,
     tracksPerArtist |-> 0, topTracksCheckedStr |-> "",
     setlistTracksCheckedStr |-> "", newTracksCheckedStr |-> "",
     todo |-> <<>>, outstanding |-> <<>>, calls |-> <<>>, acts |-> <<>>,
     trackIds |-> <<>>, warnings |-> 0,
     sent |-> <<>>, status |-> 0, body |-> "", view |-> NoFields]

Init ==
    /\ store = [k \in Keys |-> NoFields]
    /\ conn = <<>>
    /\ reqs = [r \in Slots |-> Idle]

\* res.status(code).send(message)
Responded(req, code, message) == [req EXCEPT !.pc = "done", !.status = code, !.body = message]

\* res.render(view, data)
Rendered(req, data) == [req EXCEPT !.pc = "done", !.status = 200, !.view = data]

\* the handler sends commands on the connection; sent keeps, of each, the
\* operation, the key and the names of the fields
Sending(req, cmds) ==
    [req EXCEPT !.sent = @ \o [i \in 1..Len(cmds) |->
        [op |-> cmds[i].op, key |-> cmds[i].key,
         fields |-> cmds[i].del \cup DOMAIN cmds[i].set]]]

\* !req.query[p]: the parameter is missing or the empty string
Missing(query, p) == ~Has(query, p) \/ query[p] = (IF p = "year" THEN <<>> ELSE "")

(***************************************************************************)
(* The redis server                                                        *)
(***************************************************************************)
Executed(hash, cmd) ==
    IF cmd.op = "hdel" THEN Without(hash, cmd.del)
    ELSE IF cmd.op = "hmset" THEN Merged(hash, cmd.set)
    ELSE hash

\* the server executes the next write command of the connection
RedisExec ==
    /\ conn # <<>>
    /\ Head(conn).op # "hgetall"
    /\ store' = [store EXCEPT ![Head(conn).key] = Executed(@, Head(conn))]
    /\ conn' = Tail(conn)
    /\ UNCHANGED reqs

\* the reply of HGETALL reaches the handler in slot r, which awaits it
SessionReplyFor(r) ==
    /\ reqs[r].pc = "awaitSession"
    /\ conn # <<>>
    /\ Head(conn).op = "hgetall"
    /\ Head(conn).by = r

\* obj[f], or what the code gets from undefined
Field(obj, f, undefined) == IF Has(obj, f) THEN obj[f] ELSE undefined

(***************************************************************************)
(* GET /customize                                                          *)
(***************************************************************************)
DefaultTracksPerArtist == 3

staleFieldsWithoutTrackIds ==
    {"tracksPerArtist", "artistIdsStr", "trackType", "playlistName",
     "selectedDaysStr", "selectedGenresStr"}

\* the fields the reset branch deletes
staleFields ==
    {"tracksPerArtist", "artistIdsStr", "trackIdsStr", "trackType", "playlistName",
     "selectedDaysStr", "selectedGenresStr"}

\* the record the reset branch writes
newSessionData(festival, queryYear) ==
    [festivalName |-> festival.name,
     festivalDisplayName |-> festival.display_name,
     festivalYear |-> queryYear]

sessionMatchesAnyYear(sessionData, festival, queryYear) ==
    /\ ~isNull(sessionData)
    /\ Has(sessionData, "festivalName") /\ sessionData.festivalName = festival.name

\* sessionData !== null && sessionData.festivalName === festival.name &&
\* sessionData.festivalYear === queryYear
sessionMatches(sessionData, festival, queryYear) ==
    /\ ~isNull(sessionData)
    /\ Has(sessionData, "festivalName") /\ sessionData.festivalName = festival.name
    /\ Has(sessionData, "festivalYear") /\ sessionData.festivalYear = queryYear

\* str === undefined || str === null ? null : str.split(",")
previouslySelectedFrom(sessionData, f) ==
    IF Has(sessionData, f) THEN Some(split(sessionData[f])) ELSE Null

checkedStrIgnoringNull(previouslySelected, id) ==
    IF previouslySelected # Null /\ includes(previouslySelected[1], id) THEN "checked" ELSE ""

\* previouslySelected === null || previouslySelected.includes(id) ? "checked" : ""
checkedStr(previouslySelected, id) ==
    IF previouslySelected = Null \/ includes(previouslySelected[1], id) THEN "checked" ELSE ""

\* the three radio flags for a stored trackType
trackTypeFlags(trackType) ==
    IF trackType = "setlist"
    THEN [topTracksCheckedStr |-> "", setlistTracksCheckedStr |-> "checked",
          newTracksCheckedStr |-> ""]
    ELSE IF trackType = "recent"
    THEN [topTracksCheckedStr |-> "", setlistTracksCheckedStr |-> "",
          newTracksCheckedStr |-> "checked"]
    ELSE [topTracksCheckedStr |-> "checked", setlistTracksCheckedStr |-> "",
          newTracksCheckedStr |-> ""]

\* the first lines of the handler, up to the await of the session
CustomizeStart(r, s, q) ==
    /\ reqs[r].route = "idle"
    /\ LET req == [Idle EXCEPT !.route = "customize", !.sid = s, !.query = q]
       IN IF Missing(q, "festival") \/ Missing(q, "year")
          THEN /\ reqs' = [reqs EXCEPT
                             ![r] = Responded(req, 400, "You need to choose a festival first.")]
               /\ UNCHANGED conn
          ELSE LET queryYear == parseInt(q.year)
                   found == FindEdition(q.festival, queryYear)
               IN IF found = <<>> \/ found[1].name = ""
                  THEN /\ reqs' = [reqs EXCEPT
                                     ![r] = Responded(req, 400, "Invalid query params")]
                       /\ UNCHANGED conn
                  ELSE /\ reqs' = [reqs EXCEPT ![r] =
                                     Sending([req EXCEPT !.pc = "awaitSession",
                                                         !.festival = <<found[1]>>,
                                                         !.queryYear = queryYear],
                                             <<hgetall(sessionKey(s), r)>>)]
                       /\ conn' = Append(conn, hgetall(sessionKey(s), r))
    /\ UNCHANGED store

\* from the session to the await of the artists: the selections of a session
\* of this edition (arm "then"), or the reset of the session (arm "else").
\* sessionData is not read after this step; of it the slot keeps fieldsRead,
\* the names of its fields
CustomizeOnSession(r) ==
    /\ reqs[r].route = "customize"
    /\ SessionReplyFor(r)
    /\ LET req == reqs[r]
           key == sessionKey(req.sid)
           sessionData == getSessionData(store[Head(conn).key])
           festival == req.festival[1]
       IN IF sessionMatches(sessionData, festival, req.queryYear)
          THEN LET flags == trackTypeFlags(Field(sessionData, "trackType", ""))
               IN /\ reqs' = [reqs EXCEPT ![r] =
                        [req EXCEPT
                           !.pc = "awaitMeta",
                           !.arm = "then",
                           !.fieldsRead = DOMAIN sessionData,
                           !.tracksPerArtist =
                               IF isNaN(Field(sessionData, "tracksPerArtist", NaN))
                               THEN DefaultTracksPerArtist
                               ELSE sessionData.tracksPerArtist,
                           !.topTracksCheckedStr = flags.topTracksCheckedStr,
                           !.setlistTracksCheckedStr = flags.setlistTracksCheckedStr,
                           !.newTracksCheckedStr = flags.newTracksCheckedStr,
                           !.warnings = IF Field(sessionData, "trackType", "")
                                            \in {"top", "setlist", "recent"}
                                        THEN 0 ELSE 1,
                           !.previouslySelected =
                               [artists |-> previouslySelectedFrom(sessionData, "artistIdsStr"),
                                genres |-> previouslySelectedFrom(sessionData, "selectedGenresStr"),
                                days |-> previouslySelectedFrom(sessionData, "selectedDaysStr")]]]
                  /\ conn' = Tail(conn)
          ELSE LET cmds == << hdel(key, r, staleFields),
                              hmset(key, r, newSessionData(festival, req.queryYear)) >>
               IN /\ reqs' = [reqs EXCEPT ![r] =
                        Sending([req EXCEPT
                                   !.pc = "awaitMeta",
                                   !.arm = "else",
                                   !.fieldsRead = DOMAIN sessionData,
                                   !.tracksPerArtist = DefaultTracksPerArtist,
                                   !.topTracksCheckedStr = "checked",
                                   !.setlistTracksCheckedStr = "",
                                   !.newTracksCheckedStr = ""],
                                cmds)]
                  /\ conn' = Tail(conn) \o cmds
    /\ UNCHANGED store

\* a StatefulObject for every item of a list
Stateful(items, previouslySelected) ==
    [i \in 1..Len(items) |->
        [state |-> checkedStr(previouslySelected, items[i]), obj |-> items[i]]]

\* from the metadata to res.render
CustomizeRender(r) ==
    /\ reqs[r].route = "customize"
    /\ reqs[r].pc = "awaitMeta"
    /\ LET req == reqs[r]
           festival == req.festival[1]
           prev == req.previouslySelected
           artists == getArtistsForFestival(festival.name, req.queryYear)
           dayNumbers == getLineupDays(festival.name, req.queryYear)
           genres == firstOccurrences(
                        concatAll([i \in 1..Len(artists) |-> artists[i].combined_genres]),
                        <<>>)
       IN reqs' = [reqs EXCEPT ![r] = Rendered(req,
            [view |-> "customize-list",
             festival |-> festival.name,
             festivalYear |-> req.queryYear,
             artists |-> [i \in 1..Len(artists) |->
                            [id |-> artists[i].id,
                             checkedStr |-> checkedStr(prev.artists, artists[i].id)]],
             mainGenres |->
                 Stateful(SelectSeq(genres, LAMBDA g : includes(mainGenres, g)), prev.genres),
             specificGenres |->
                 Stateful(SelectSeq(genres, LAMBDA g : ~includes(mainGenres, g)), prev.genres),
             days |-> [i \in 1..Len(dayNumbers) |->
                         [state |-> checkedStr(prev.days, toString(dayNumbers[i])),
                          obj |-> dayNumbers[i]]],
             tracksPerArtist |-> req.tracksPerArtist,
             topTracksCheckedStr |-> req.topTracksCheckedStr,
             setlistTracksCheckedStr |-> req.setlistTracksCheckedStr,
             newTracksCheckedStr |-> req.newTracksCheckedStr])]
    /\ UNCHANGED <<store, conn>>

(***************************************************************************)
(* GET /personalized-lineup                                                *)
(***************************************************************************)
\* what a track fetch may resolve to
TrackLists ==
    { <<>>,
      << [id |-> <<"t", "1">>] >>,
      << [id |-> <<"t", "2">>], [id |-> <<"t", "1">>] >> }

\* the fetch the if-chain on sessionData.trackType calls, and whether it warns
trackFetch(trackType) ==
    IF trackType = "recent" THEN [fn |-> "getNewestTracksForArtist", warn |-> FALSE]
    ELSE IF trackType = "top" THEN [fn |-> "getTopTracksForArtist", warn |-> FALSE]
    ELSE IF trackType = "setlist" THEN [fn |-> "getSetlistTracksForArtist", warn |-> FALSE]
    ELSE [fn |-> "getTopTracksForArtist", warn |-> TRUE]

\* the artists whose fetch the loop starts before it awaits: the next one
startNextFetch(todo) == IF todo = <<>> THEN <<>> ELSE <<Head(todo)>>

\* a collector that puts the newest tracks first
collectedInFront(trackIds, tracksForArtist) ==
    [i \in 1..Len(tracksForArtist) |-> tracksForArtist[i].id] \o trackIds

\* trackIds.concat(tracksForArtist.map(x => x.id)), when there are tracks
collected(trackIds, tracksForArtist) ==
    IF Len(tracksForArtist) > 0
    THEN trackIds \o [i \in 1..Len(tracksForArtist) |-> tracksForArtist[i].id]
    ELSE trackIds

\* {...sessionData, trackIdsStr : trackIds.join(",")}
lineupUpdate(sessionData, trackIds) ==
    Merged(sessionData, [trackIdsStr |-> join(trackIds)])

\* the handler with the fetches of the artists in `started` begun
Fetching(req, started) ==
    LET fetch == trackFetch(Field(req.sessionData, "trackType", ""))
        calls == [i \in 1..Len(started) |-> [fn |-> fetch.fn, artist |-> started[i].id]]
    IN [req EXCEPT !.pc = "awaitTracks",
                   !.todo = SubSeq(@, Len(started) + 1, Len(@)),
                   !.outstanding = @ \o calls,
                   !.calls = @ \o calls,
                   !.warnings = @ + (IF fetch.warn THEN Len(started) ELSE 0)]

\* the loop is over: no artist is left and no fetch is awaited
LoopOver(req) == req.todo = <<>> /\ req.outstanding = <<>>

\* the write of the track IDs that ends the handler
LineupWrite(req, r) ==
    hmset(sessionKey(req.sid), r, lineupUpdate(req.sessionData, req.trackIds))

\* the loop over filteredArtists from its current position to the next await,
\* or to the end of the handler: the write and res.render
LineupLoop(req, r) ==
    IF LoopOver(req)
    THEN Sending(Rendered(req, [view |-> "personalized-lineup", acts |-> req.acts]),
                 <<LineupWrite(req, r)>>)
    ELSE IF req.outstanding = <<>> THEN Fetching(req, startNextFetch(req.todo))
    ELSE req

LineupStart(r, s) ==
    /\ reqs[r].route = "idle"
    /\ reqs' = [reqs EXCEPT ![r] =
                  Sending([Idle EXCEPT !.route = "lineup", !.sid = s, !.pc = "awaitSession"],
                          <<hgetall(sessionKey(s), r)>>)]
    /\ conn' = Append(conn, hgetall(sessionKey(s), r))
    /\ UNCHANGED store

LineupOnSession(r) ==
    /\ reqs[r].route = "lineup"
    /\ SessionReplyFor(r)
    /\ LET req == reqs[r]
           sessionData == getSessionData(store[Head(conn).key])
       IN reqs' = [reqs EXCEPT ![r] =
              IF isNull(sessionData)
              THEN Responded(req, 400,
                     "This url only accessible after generating a lineup from the customize page.")
              ELSE [req EXCEPT !.pc = "awaitArtists", !.sessionData = sessionData]]
    /\ conn' = Tail(conn)
    /\ UNCHANGED store

\* from the artists to the first track fetch; sessionData.artistIdsStr.split
\* throws a TypeError when the field is undefined
LineupOnArtists(r) ==
    /\ reqs[r].route = "lineup"
    /\ reqs[r].pc = "awaitArtists"
    /\ LET req == reqs[r]
           sessionData == req.sessionData
           artists == getArtistsForFestival(Field(sessionData, "festivalName", ""),
                                            Field(sessionData, "festivalYear", NaN))
       IN IF ~Has(sessionData, "artistIdsStr")
          THEN /\ reqs' = [reqs EXCEPT ![r] = [req EXCEPT !.pc = "threw"]]
               /\ UNCHANGED conn
          ELSE LET chosenArtistIds == split(sessionData.artistIdsStr)
                   filteredArtists ==
                       IF Len(chosenArtistIds) > 0
                       THEN SelectSeq(artists, LAMBDA x : includes(chosenArtistIds, x.id))
                       ELSE <<>>
                   looping == [req EXCEPT !.todo = filteredArtists]
               IN /\ reqs' = [reqs EXCEPT ![r] = LineupLoop(looping, r)]
                  /\ conn' = IF LoopOver(looping) THEN Append(conn, LineupWrite(looping, r))
                             ELSE conn
    /\ UNCHANGED store

\* a track fetch resolves to tracksForArtist
LineupOnTracks(r, tracksForArtist) ==
    /\ reqs[r].route = "lineup"
    /\ reqs[r].pc = "awaitTracks"
    /\ reqs[r].outstanding # <<>>
    /\ LET req == reqs[r]
           call == Head(req.outstanding)
           looping == [req EXCEPT
                         !.outstanding = Tail(@),
                         !.acts = Append(@, [id |-> call.artist, tracks |-> tracksForArtist]),
                         !.trackIds = collected(@, tracksForArtist)]
       IN /\ reqs' = [reqs EXCEPT ![r] = LineupLoop(looping, r)]
          /\ conn' = IF LoopOver(looping) THEN Append(conn, LineupWrite(looping, r))
                     ELSE conn
    /\ UNCHANGED store

(***************************************************************************)
(* GET /generate-playlist-success                                          *)
(***************************************************************************)
SuccessStart(r, s) ==
    /\ reqs[r].route = "idle"
    /\ reqs' = [reqs EXCEPT ![r] =
                  Sending([Idle EXCEPT !.route = "success", !.sid = s, !.pc = "awaitSession"],
                          <<hgetall(sessionKey(s), r)>>)]
    /\ conn' = Append(conn, hgetall(sessionKey(s), r))
    /\ UNCHANGED store

\* festival.display_name throws a TypeError when no festival was found
SuccessOnSession(r) ==
    /\ reqs[r].route = "success"
    /\ SessionReplyFor(r)
    /\ LET req == reqs[r]
           sessionData == getSessionData(store[Head(conn).key])
           found == FindEdition(Field(sessionData, "festivalName", ""),
                                Field(sessionData, "festivalYear", NaN))
       IN reqs' = [reqs EXCEPT ![r] =
              IF isNull(sessionData)
              THEN Responded(req, 403,
                             "This url only accessible after generating Spotify playlist.")
              ELSE IF found = <<>>
              THEN [req EXCEPT !.pc = "threw", !.sessionData = sessionData]
              ELSE Rendered([req EXCEPT !.sessionData = sessionData, !.festival = <<found[1]>>],
                            [view |-> "generate-playlist-success",
                             festival |-> found[1].name,
                             festivalYear |-> sessionData.festivalYear,
                             playlistName |-> Field(sessionData, "playlistName", ""),
                             playlistUrl |-> Field(sessionData, "playlistUrl", "")])]
    /\ conn' = Tail(conn)
    /\ UNCHANGED store

(***************************************************************************)
(* The other writers of the session: the customize form that saves the     *)
(* visitor's selections and the playlist step that saves the playlist      *)
(***************************************************************************)
RECURSIVE Picked(_, _, _)
\* the items of list at the positions in S, in list order, from position i on
Picked(list, S, i) ==
    IF i > Len(list) THEN <<>>
    ELSE (IF i \in S THEN <<list[i]>> ELSE <<>>) \o Picked(list, S, i + 1)

\* the comma-joined lists of identifiers a form over `items` can submit
JoinedSelections(items) == {join(Picked(items, S, 1)) : S \in SUBSET (1..Len(items))}

ArtistIds(name, year) ==
    LET artists == getArtistsForFestival(name, year)
    IN [i \in 1..Len(artists) |-> artists[i].id]

DayIds(name, year) ==
    LET dayNumbers == getLineupDays(name, year)
    IN [i \in 1..Len(dayNumbers) |-> toString(dayNumbers[i])]

GenreIds(name, year) ==
    LET artists == getArtistsForFestival(name, year)
    IN firstOccurrences(concatAll([i \in 1..Len(artists) |-> artists[i].combined_genres]),
                        <<>>)

\* the form saved with everything of the edition selected but one genre
FullSelection(name, year) ==
    { [artistIdsStr |-> join(ArtistIds(name, year)),
       selectedDaysStr |-> join(DayIds(name, year)),
       selectedGenresStr |-> join(Tail(GenreIds(name, year))),
       trackType |-> "recent",
       tracksPerArtist |-> 5] }

\* the form saved with any artists, and with or without days and genres
MergerSelections(name, year) ==
    { Merged(Merged([artistIdsStr |-> a], d), g) :
        a \in JoinedSelections(ArtistIds(name, year)),
        d \in {NoFields}
              \cup {[selectedDaysStr |-> x] : x \in JoinedSelections(DayIds(name, year))},
        g \in {NoFields}
              \cup {[selectedGenresStr |-> x] : x \in JoinedSelections(GenreIds(name, year))} }

\* the form saved with any artists and any track type, or none, or with
\* days and genres too
TrackSelections(name, year) ==
    { Merged([artistIdsStr |-> a], t) :
        a \in JoinedSelections(ArtistIds(name, year)),
        t \in {NoFields}
              \cup {[trackType |-> x, tracksPerArtist |-> 5] :
                      x \in {"", "top", "setlist", "recent", "popular"}} }
    \cup FullSelection(name, year)

PlaylistSaved == [playlistName |-> "Lineup List", playlistUrl |-> "https://open.spotify.com/p"]

\* a write by another handler of the process reaches the connection; it
\* merges fields into the session the visitor already has
SessionSaved(s, fields) ==
    /\ store[sessionKey(s)] # NoFields
    /\ \A i \in 1..Len(conn) : conn[i].by # 0
    /\ conn' = Append(conn, hmset(sessionKey(s), 0, fields))
    /\ UNCHANGED <<store, reqs>>

StoredName(s) == Field(store[sessionKey(s)], "festivalName", "")

StoredYear(s) == parseInt(Field(store[sessionKey(s)], "festivalYear", <<>>))

SaveSelections(s) ==
    /\ store[sessionKey(s)] # NoFields
    /\ \E fields \in FullSelection(StoredName(s), StoredYear(s)) : SessionSaved(s, fields)

\* no handler is in flight and the connection is drained
Quiet == conn = <<>> /\ \A r \in Slots : reqs[r].route = "idle"

SaveMergerSelections(s) ==
    /\ Quiet
    /\ \E fields \in MergerSelections(StoredName(s), StoredYear(s)) : SessionSaved(s, fields)

SaveTrackSelections(s) ==
    /\ Quiet
    /\ store[sessionKey(s)] # NoFields
    /\ \E fields \in TrackSelections(StoredName(s), StoredYear(s)) : SessionSaved(s, fields)

SavePlaylist(s) ==
    /\ Has(store[sessionKey(s)], "trackIdsStr")
    /\ SessionSaved(s, PlaylistSaved)

\* the slot of a handler that is over is freed
Retire(r) ==
    /\ reqs[r].pc \in {"done", "threw"}
    /\ \A i \in 1..Len(conn) : conn[i].by # r
    /\ reqs' = [reqs EXCEPT ![r] = Idle]
    /\ UNCHANGED <<store, conn>>

(***************************************************************************)
(* The requests of the visitors                                            *)
(***************************************************************************)
Year2023 == <<"2", "0", "2", "3">>

Year2024 == <<"2", "0", "2", "4">>

\* the queries of the editions of the catalog
EditionQueries ==
    { [festival |-> "coachella", year |-> Year2023],
      [festival |-> "coachella", year |-> Year2024],
      [festival |-> "glastonbury", year |-> Year2024] }

\* queries with a parameter missing, empty or unknown, and one whose year
\* has trailing letters
OtherQueries ==
    { [festival |-> "glastonbury", year |-> Year2023],
      [festival |-> "lollapalooza", year |-> Year2024],
      [festival |-> "coachella", year |-> <<"x">>],
      [festival |-> "coachella", year |-> Year2024 \o <<"x">>],
      [festival |-> "", year |-> Year2024],
      [festival |-> "coachella", year |-> <<>>],
      [festival |-> "coachella"],
      [year |-> Year2024],
      NoFields }

Queries == EditionQueries \cup OtherQueries

\* a request is handled in the first free slot
Free(r) == reqs[r].route = "idle" /\ \A r2 \in Slots : r2 < r => reqs[r2].route # "idle"

\* the response of slot r is out and every command of its handler was executed
Retirable(r) == reqs[r].pc \in {"done", "threw"} /\ \A i \in 1..Len(conn) : conn[i].by # r

\* Scheduling.  The server executes the commands of the connection in the
\* order they were sent and a handler sees the store only in the reply to its
\* HGETALL, so a run in which the server executes a write later, or a slot is
\* freed later, has the same replies and the same sequence of stores as the run
\* in which both happen at once.  The steps of the handlers are taken in
\* states where no write heads the connection and no slot waits to be freed.
NoneRetirable == \A r \in Slots : ~Retirable(r)

Prompt == NoneRetirable /\ (IF conn = <<>> THEN TRUE ELSE Head(conn).op = "hgetall")

OneTrackList == { << [id |-> <<"t", "1">>] >> }

\* the queries of the editions, one of a year the festival has not and one
\* without a festival
FewQueries ==
    EditionQueries
    \cup {[festival |-> "glastonbury", year |-> Year2023], [year |-> Year2024]}

\* one visitor, MaxInFlight handlers in flight
Next ==
    \/ \E r \in Slots, q \in FewQueries : Prompt /\ Free(r) /\ CustomizeStart(r, "A", q)
    \/ \E r \in Slots : NoneRetirable /\ CustomizeOnSession(r)
    \/ \E r \in Slots : Prompt /\ CustomizeRender(r)
    \/ \E r \in Slots : Prompt /\ Free(r) /\ LineupStart(r, "A")
    \/ \E r \in Slots : NoneRetirable /\ LineupOnSession(r)
    \/ \E r \in Slots : Prompt /\ LineupOnArtists(r)
    \/ \E r \in Slots, tracks \in OneTrackList : Prompt /\ LineupOnTracks(r, tracks)
    \/ \E r \in Slots : Prompt /\ Free(r) /\ SuccessStart(r, "A")
    \/ \E r \in Slots : NoneRetirable /\ SuccessOnSession(r)
    \/ Prompt /\ SaveSelections("A")
    \/ \E r \in Slots : Retire(r)
    \/ RedisExec

Spec == Init /\ [][Next]_vars

\* the queries of one edition, and one without a festival
OneEditionQueries ==
    {[festival |-> "glastonbury", year |-> Year2024], [year |-> Year2024]}

\* two visitors of one edition, MaxInFlight handlers in flight
NextVisitors ==
    \/ \E r \in Slots, s \in Sids, q \in OneEditionQueries :
          Prompt /\ Free(r) /\ CustomizeStart(r, s, q)
    \/ \E r \in Slots : NoneRetirable /\ CustomizeOnSession(r)
    \/ \E r \in Slots : Prompt /\ CustomizeRender(r)
    \/ \E r \in Slots, s \in Sids : Prompt /\ Free(r) /\ LineupStart(r, s)
    \/ \E r \in Slots : NoneRetirable /\ LineupOnSession(r)
    \/ \E r \in Slots : Prompt /\ LineupOnArtists(r)
    \/ \E r \in Slots, tracks \in OneTrackList : Prompt /\ LineupOnTracks(r, tracks)
    \/ \E r \in Slots, s \in Sids : Prompt /\ Free(r) /\ SuccessStart(r, s)
    \/ \E r \in Slots : NoneRetirable /\ SuccessOnSession(r)
    \/ \E s \in Sids : Prompt /\ SaveSelections(s)
    \/ \E r \in Slots : Retire(r)
    \/ RedisExec

SpecVisitors == Init /\ [][NextVisitors]_vars

\* one visitor, one handler at a time, on /customize with any saved selections
NextMerger ==
    \/ \E q \in Queries : Prompt /\ CustomizeStart(1, "A", q)
    \/ CustomizeOnSession(1)
    \/ CustomizeRender(1)
    \/ SaveMergerSelections("A")
    \/ Retire(1)
    \/ RedisExec

SpecMerger == Init /\ [][NextMerger]_vars

\* one visitor, one handler at a time, on the three routes with any saved
\* artists and track type, and the playlist saved
NextTracks ==
    \/ \E q \in EditionQueries : Prompt /\ CustomizeStart(1, "A", q)
    \/ CustomizeOnSession(1)
    \/ CustomizeRender(1)
    \/ Prompt /\ LineupStart(1, "A")
    \/ LineupOnSession(1)
    \/ LineupOnArtists(1)
    \/ \E tracks \in TrackLists : LineupOnTracks(1, tracks)
    \/ Prompt /\ SuccessStart(1, "A")
    \/ SuccessOnSession(1)
    \/ SaveTrackSelections("A")
    \/ Quiet /\ SavePlaylist("A")
    \/ Retire(1)
    \/ RedisExec

SpecTracks == Init /\ [][NextTracks]_vars

(***************************************************************************)
(* Properties                                                              *)
(***************************************************************************)
\* the commands of the connection that the handler in slot r sent
Pending(r) == SelectSeq(conn, LAMBDA c : c.by = r)

\* the operations of the commands a handler has sent, in order
Ops(req) == [i \in 1..Len(req.sent) |-> req.sent[i].op]

\* the catalog has a festival of this name with this year among its years
InCatalog(name, year) ==
    \E i \in 1..Len(supportedFestivals) :
        /\ supportedFestivals[i].name = name
        /\ \E j \in 1..Len(supportedFestivals[i].years) :
              supportedFestivals[i].years[j] = year

\* the query names no edition of the catalog: a parameter is missing or empty,
\* or no festival of the catalog has the name with the year
NamesNoEdition(q) ==
    \/ "festival" \notin DOMAIN q
    \/ "year" \notin DOMAIN q
    \/ q.festival = ""
    \/ q.year = <<>>
    \/ ~InCatalog(q.festival, parseInt(q.year))

\* C2: GET /customize answers 400 without rendering if and only if the
\* festival or year parameter is missing or no festival of the catalog has the
\* requested name with the requested year in its years; a request answered 400
\* has sent no read, delete or write to the session store.
C2_BadRequestIffNoEdition ==
    \A r \in Slots :
        reqs[r].route = "customize" =>
            /\ reqs[r].status = 400 <=> NamesNoEdition(reqs[r].query)
            /\ reqs[r].status = 400 =>
                  /\ reqs[r].pc = "done"
                  /\ reqs[r].view = NoFields
                  /\ reqs[r].sent = <<>>
                  /\ Pending(r) = <<>>

\* a request for a year the festival has not was answered 400 while the
\* visitor has a session
C2_Witness ==
    \E r \in Slots :
        /\ reqs[r].route = "customize"
        /\ reqs[r].status = 400
        /\ reqs[r].body = "Invalid query params"
        /\ reqs[r].query.festival = "glastonbury"
        /\ store[sessionKey(reqs[r].sid)] # NoFields

\* the fields the reset of a session is to remove
ClaimedStale ==
    {"tracksPerArtist", "artistIdsStr", "trackIdsStr", "trackType", "playlistName",
     "selectedDaysStr", "selectedGenresStr"}

DisplayNameOf(name) ==
    (CHOOSE f \in {supportedFestivals[i] : i \in 1..Len(supportedFestivals)} :
        f.name = name).display_name

\* C1: when GET /customize for a valid edition finds a session of another
\* festival or year, then once the commands of the request are executed the
\* session has none of tracksPerArtist, artistIdsStr, trackIdsStr, trackType,
\* playlistName, selectedDaysStr, selectedGenresStr, and the request has
\* written only festivalName, festivalDisplayName and festivalYear, of the
\* requested edition.
C1_ResetRemovesStaleFields ==
    \A r \in Slots :
        LET req == reqs[r]
            key == sessionKey(req.sid)
            h == store[key]
        IN (req.route = "customize" /\ req.arm = "else" /\ req.fieldsRead # {}
              /\ Pending(r) = <<>>) =>
              /\ DOMAIN h \cap ClaimedStale = {}
              /\ h.festivalName = req.query.festival
              /\ h.festivalDisplayName = DisplayNameOf(req.query.festival)
              /\ h.festivalYear = toString(parseInt(req.query.year))
              /\ req.sent =
                    << [op |-> "hgetall", key |-> key, fields |-> {}],
                       [op |-> "hdel", key |-> key, fields |-> ClaimedStale],
                       [op |-> "hmset", key |-> key,
                        fields |-> {"festivalName", "festivalDisplayName", "festivalYear"}] >>

\* the reset of a session that had every one of the seven fields is done
C1_Witness ==
    \E r \in Slots :
        /\ reqs[r].route = "customize"
        /\ reqs[r].arm = "else"
        /\ ClaimedStale \subseteq reqs[r].fieldsRead
        /\ Pending(r) = <<>>
        /\ reqs[r].pc = "done"

\* the reply to the HGETALL of slot r says there is no session
NoSessionReply(r) ==
    /\ reqs[r].pc = "awaitSession"
    /\ reqs'[r].pc # "awaitSession"
    /\ store[sessionKey(reqs[r].sid)] = NoFields

\* C3: when the visitor has no session, GET /personalized-lineup answers 400
\* and GET /generate-playlist-success answers 403; no page is rendered, no
\* track fetch is made and no write is sent to the session store.
C3_NoSessionIsRefused ==
    [][\A r \in Slots :
          (reqs[r].route \in {"lineup", "success"} /\ NoSessionReply(r)) =>
              /\ reqs'[r].pc = "done"
              /\ reqs'[r].status = (IF reqs[r].route = "lineup" THEN 400 ELSE 403)
              /\ reqs'[r].view = NoFields
              /\ reqs'[r].calls = <<>>
              /\ reqs'[r].sent = reqs[r].sent
              /\ Ops(reqs[r]) = <<"hgetall">>
              /\ conn' = Tail(conn)
              /\ store' = store]_vars

\* /personalized-lineup was answered 400 and the visitor still has no session
C3_Witness ==
    \E r \in Slots :
        /\ reqs[r].route = "lineup"
        /\ reqs[r].status = 400
        /\ Pending(r) = <<>>
        /\ store[sessionKey(reqs[r].sid)] = NoFields

\* id stands in str between commas or the ends of str
IsToken(str, id) ==
    \E i \in 1..(Len(str) + 1) :
        LET j == i + Len(id) - 1
        IN /\ j <= Len(str)
           /\ SubSeq(str, i, j) = id
           /\ (i = 1 \/ str[i - 1] = ",")
           /\ (j = Len(str) \/ str[j + 1] = ",")

\* the hash is a session of the edition the query names
StoredMatches(h, q) ==
    /\ h # NoFields
    /\ "festivalName" \in DOMAIN h /\ h.festivalName = q.festival
    /\ "festivalYear" \in DOMAIN h /\ parseInt(h.festivalYear) = parseInt(q.year)

\* the items of a rendered list that are checked, by identifier
CheckedIn(list, idOf(_), stateOf(_)) ==
    {idOf(list[i]) : i \in {j \in 1..Len(list) : stateOf(list[j]) = "checked"}}

IdsIn(list, idOf(_)) == {idOf(list[i]) : i \in 1..Len(list)}

\* the checked items of a rendered list are those a saved string names, or all
\* of them when the hash has no such field
RenderedFromSaved(h, f, checked, all) ==
    IF f \in DOMAIN h THEN checked = {id \in all : IsToken(h[f], id)} ELSE checked = all

\* the page of slot r shows the selections the hash h saves
ShowsSaved(view, h) ==
    /\ view.tracksPerArtist =
          (IF "tracksPerArtist" \in DOMAIN h THEN parseInt(h.tracksPerArtist) ELSE 3)
    /\ <<view.topTracksCheckedStr, view.setlistTracksCheckedStr, view.newTracksCheckedStr>> =
          (IF "trackType" \in DOMAIN h /\ h.trackType = "setlist" THEN <<"", "checked", "">>
           ELSE IF "trackType" \in DOMAIN h /\ h.trackType = "recent" THEN <<"", "", "checked">>
           ELSE <<"checked", "", "">>)
    /\ RenderedFromSaved(h, "artistIdsStr",
          CheckedIn(view.artists, LAMBDA a : a.id, LAMBDA a : a.checkedStr),
          IdsIn(view.artists, LAMBDA a : a.id))
    /\ RenderedFromSaved(h, "selectedDaysStr",
          CheckedIn(view.days, LAMBDA d : toString(d.obj), LAMBDA d : d.state),
          IdsIn(view.days, LAMBDA d : toString(d.obj)))
    /\ RenderedFromSaved(h, "selectedGenresStr",
          CheckedIn(view.mainGenres \o view.specificGenres, LAMBDA g : g.obj, LAMBDA g : g.state),
          IdsIn(view.mainGenres \o view.specificGenres, LAMBDA g : g.obj))

\* the reply to the HGETALL of the /customize in slot r arrives
CustomizeReply(r) ==
    reqs[r].route = "customize" /\ reqs[r].pc = "awaitSession" /\ reqs'[r].pc = "awaitMeta"

\* C7: when GET /customize for a valid edition finds a session of that
\* festival and year, it sends no delete and no write and renders the saved
\* selections; it rewrites the session only when there is none or it is of
\* another festival or year.
C7_MatchingSessionIsKept ==
    /\ [][\A r \in Slots :
            CustomizeReply(r) =>
                IF StoredMatches(store[sessionKey(reqs[r].sid)], reqs[r].query)
                THEN /\ reqs'[r].arm = "then"
                     /\ reqs'[r].sent = reqs[r].sent
                     /\ conn' = Tail(conn)
                     /\ store' = store
                ELSE /\ reqs'[r].arm = "else"
                     /\ Ops(reqs'[r]) = <<"hgetall", "hdel", "hmset">>]_vars
    /\ [](\A r \in Slots :
            (reqs[r].route = "customize" /\ reqs[r].arm = "then") =>
                /\ Ops(reqs[r]) = <<"hgetall">>
                /\ Pending(r) = <<>>
                /\ StoredMatches(store[sessionKey(reqs[r].sid)], reqs[r].query)
                /\ reqs[r].pc = "done" =>
                      ShowsSaved(reqs[r].view, store[sessionKey(reqs[r].sid)]))

\* a page was rendered from a session that saves artists, days, genres, a
\* track type and a track count, and the session is as it was
C7_Witness ==
    \E r \in Slots :
        /\ reqs[r].route = "customize"
        /\ reqs[r].arm = "then"
        /\ reqs[r].pc = "done"
        /\ {"artistIdsStr", "selectedDaysStr", "selectedGenresStr", "trackType",
            "tracksPerArtist"} \subseteq DOMAIN store[sessionKey(reqs[r].sid)]
        /\ reqs[r].view.newTracksCheckedStr = "checked"
        /\ reqs[r].view.tracksPerArtist = 5

\* the elements of an optional list
Listed(previouslySelected) ==
    {previouslySelected[1][i] : i \in 1..Len(previouslySelected[1])}

\* the Selection Merger rule for one rendered list
MergedByRule(previouslySelected, checked, all) ==
    IF previouslySelected = Null THEN checked = all
    ELSE checked = all \cap Listed(previouslySelected)

\* nothing of a rendered list is checked when the hash saves the empty string
NoneOfEmpty(h, f, checked) == (f \in DOMAIN h /\ h[f] = <<>>) => checked = {}

\* C4: on /customize, for artists, days, main genres and specific genres
\* alike: with no previously selected list every item is rendered checked,
\* with a list exactly the items whose identifier is in it are checked, and
\* with the selection saved empty no item is.
C4_SelectionMergerRule ==
    \A r \in Slots :
        (reqs[r].route = "customize" /\ reqs[r].pc = "done" /\ reqs[r].status = 200) =>
            LET view == reqs[r].view
                prev == reqs[r].previouslySelected
                h == IF reqs[r].arm = "then" THEN store[sessionKey(reqs[r].sid)] ELSE NoFields
                artists == CheckedIn(view.artists, LAMBDA a : a.id, LAMBDA a : a.checkedStr)
                days == CheckedIn(view.days, LAMBDA d : toString(d.obj), LAMBDA d : d.state)
                main == CheckedIn(view.mainGenres, LAMBDA g : g.obj, LAMBDA g : g.state)
                specific == CheckedIn(view.specificGenres, LAMBDA g : g.obj, LAMBDA g : g.state)
            IN /\ MergedByRule(prev.artists, artists, IdsIn(view.artists, LAMBDA a : a.id))
               /\ MergedByRule(prev.days, days, IdsIn(view.days, LAMBDA d : toString(d.obj)))
               /\ MergedByRule(prev.genres, main, IdsIn(view.mainGenres, LAMBDA g : g.obj))
               /\ MergedByRule(prev.genres, specific,
                               IdsIn(view.specificGenres, LAMBDA g : g.obj))
               /\ NoneOfEmpty(h, "artistIdsStr", artists)
               /\ NoneOfEmpty(h, "selectedDaysStr", days)
               /\ NoneOfEmpty(h, "selectedGenresStr", main \cup specific)
               /\ \A i \in 1..Len(view.artists) : view.artists[i].checkedStr \in {"checked", ""}

\* one page with some but not all artists checked from a list, every day
\* checked for want of a list, and no genre checked from the empty selection
C4_Witness ==
    \E r \in Slots :
        /\ reqs[r].route = "customize" /\ reqs[r].pc = "done" /\ reqs[r].status = 200
        /\ reqs[r].previouslySelected.artists # Null
        /\ \E i, j \in 1..Len(reqs[r].view.artists) :
              /\ reqs[r].view.artists[i].checkedStr = "checked"
              /\ reqs[r].view.artists[j].checkedStr = ""
        /\ reqs[r].previouslySelected.days = Null
        /\ Len(reqs[r].view.days) = 2
        /\ \A i \in 1..Len(reqs[r].view.days) : reqs[r].view.days[i].state = "checked"
        /\ reqs[r].previouslySelected.genres = Some(<< <<>> >>)
        /\ reqs[r].view.mainGenres # <<>> /\ reqs[r].view.specificGenres # <<>>
        /\ \A i \in 1..Len(reqs[r].view.mainGenres) : reqs[r].view.mainGenres[i].state = ""
        /\ \A i \in 1..Len(reqs[r].view.specificGenres) :
              reqs[r].view.specificGenres[i].state = ""

\* the artists of the session's edition that its artistIdsStr names, in the
\* order of the edition
Chosen(sessionData) ==
    SelectSeq(ArtistIds(sessionData.festivalName, sessionData.festivalYear),
              LAMBDA id : IsToken(sessionData.artistIdsStr, id))

\* the fetch the claim gives a track type
ClaimedFetch(sessionData) ==
    IF "trackType" \notin DOMAIN sessionData THEN "getTopTracksForArtist"
    ELSE IF sessionData.trackType = "recent" THEN "getNewestTracksForArtist"
    ELSE IF sessionData.trackType = "setlist" THEN "getSetlistTracksForArtist"
    ELSE "getTopTracksForArtist"

Recognised(sessionData) ==
    "trackType" \in DOMAIN sessionData /\ sessionData.trackType \in {"recent", "top", "setlist"}

\* the track IDs of the acts, act after act, joined by commas
JoinedTrackIds(acts) ==
    join(concatAll([i \in 1..Len(acts) |->
                      [j \in 1..Len(acts[i].tracks) |-> acts[i].tracks[j].id]]))

\* the trackIdsStr the handler in slot r wrote: in its command while that is
\* on the connection, in the store after
WrittenTrackIds(r) ==
    LET sent == Pending(r)
    IN IF sent # <<>> THEN sent[Len(sent)].set.trackIdsStr
       ELSE store[sessionKey(reqs[r].sid)].trackIdsStr

\* C5: on /personalized-lineup every chosen artist is fetched with the fetch
\* of the track type (recent: newest, top: top, setlist: setlist, anything
\* else: top with a warning), one artist at a time, and the trackIdsStr
\* written is the comma-join of the fetched track IDs in artist order and,
\* within an artist, in the order returned.
C5_TrackResolver ==
    \A r \in Slots :
        (reqs[r].route = "lineup" /\ reqs[r].pc \in {"awaitTracks", "done"}
           /\ reqs[r].status # 400) =>
            LET req == reqs[r]
                chosen == Chosen(req.sessionData)
            IN /\ \A i \in 1..Len(req.calls) :
                     /\ req.calls[i].fn = ClaimedFetch(req.sessionData)
                     /\ req.calls[i].artist = chosen[i]
               /\ req.warnings = (IF Recognised(req.sessionData) THEN 0 ELSE Len(req.calls))
               /\ Len(req.outstanding) <= 1
               /\ Len(req.calls) = Len(req.acts) + Len(req.outstanding)
               /\ req.pc = "done" =>
                     /\ [i \in 1..Len(req.view.acts) |-> req.view.acts[i].id] = chosen
                     /\ Len(req.calls) = Len(chosen)
                     /\ WrittenTrackIds(r) = JoinedTrackIds(req.view.acts)

\* two artists were fetched by the fallback for an empty track type, the
\* first returned two tracks and the second one
C5_Witness ==
    \E r \in Slots :
        /\ reqs[r].route = "lineup" /\ reqs[r].pc = "done" /\ reqs[r].status = 200
        /\ "trackType" \in DOMAIN reqs[r].sessionData
        /\ reqs[r].sessionData.trackType = ""
        /\ reqs[r].warnings = 2
        /\ Len(reqs[r].view.acts) = 2
        /\ Len(reqs[r].view.acts[1].tracks) = 2
        /\ Len(reqs[r].view.acts[2].tracks) = 1
        /\ WrittenTrackIds(r) = <<"t", "2", ",", "t", "1", ",", "t", "1">>

\* C6: on /personalized-lineup with a session whose artistIdsStr is empty or
\* absent no track is fetched, the page is rendered with no acts and
\* trackIdsStr is stored as the empty string.
C6_NoArtistsRendersNoActs ==
    \A r \in Slots :
        LET req == reqs[r]
        IN (/\ req.route = "lineup"
            /\ req.pc \in {"done", "threw"}
            /\ req.sessionData # NoFields
            /\ ("artistIdsStr" \in DOMAIN req.sessionData => req.sessionData.artistIdsStr = <<>>))
           => /\ req.pc = "done"
              /\ req.status = 200
              /\ req.calls = <<>>
              /\ req.view.acts = <<>>
              /\ WrittenTrackIds(r) = <<>>

\* C8: the write of /personalized-lineup merges trackIdsStr only: executed,
\* it changes no other field of the session as the session is at that moment.
C8_LineupWritesTrackIdsOnly ==
    (/\ conn # <<>>
     /\ Head(conn).op = "hmset"
     /\ Head(conn).by \in Slots
     /\ reqs[Head(conn).by].route = "lineup")
    => \A f \in DOMAIN Head(conn).set \ {"trackIdsStr"} :
          /\ f \in DOMAIN store[Head(conn).key]
          /\ store[Head(conn).key][f] = Head(conn).set[f]

\* C9: a request of visitor A reads, deletes and writes only the hash keyed
\* by A: every command it sends has that key, and a hash changes only when a
\* command of its own visitor is executed.
C9_VisitorsAreIsolated ==
    /\ [](\A i \in 1..Len(conn) :
            conn[i].by \in Slots => conn[i].key = <<"sessionData", reqs[conn[i].by].sid>>)
    /\ [](\A r \in Slots : \A i \in 1..Len(reqs[r].sent) :
            reqs[r].sent[i].key = <<"sessionData", reqs[r].sid>>)
    /\ [][\A s \in Sids :
            store'[<<"sessionData", s>>] # store[<<"sessionData", s>>] =>
                /\ conn # <<>>
                /\ Head(conn).key = <<"sessionData", s>>
                /\ Head(conn).by \in Slots => reqs[Head(conn).by].sid = s]_vars

\* handlers of both visitors are in flight with writes sent, and the two
\* sessions differ
C9_Witness ==
    /\ \E r1, r2 \in Slots :
          /\ reqs[r1].sid = "A" /\ reqs[r2].sid = "B"
          /\ Len(reqs[r1].sent) > 1
          /\ reqs[r2].route = "lineup" /\ reqs[r2].pc = "awaitTracks"
    /\ store[<<"sessionData", "A">>] # NoFields
    /\ store[<<"sessionData", "B">>] # NoFields
    /\ store[<<"sessionData", "A">>] # store[<<"sessionData", "B">>]

\* C10: from an empty store, every session names an edition of the catalog,
\* and /generate-playlist-success finds the festival of every session it
\* reads.
C10_SessionsNameEditions ==
    /\ \A k \in Keys :
          store[k] # NoFields =>
              /\ {"festivalName", "festivalYear"} \subseteq DOMAIN store[k]
              /\ InCatalog(store[k].festivalName, parseInt(store[k].festivalYear))
    /\ \A r \in Slots : reqs[r].route = "success" => reqs[r].pc # "threw"

\* the success page was rendered for a session that a lineup wrote
C10_Witness ==
    \E r \in Slots :
        /\ reqs[r].route = "success"
        /\ reqs[r].status = 200
        /\ "trackIdsStr" \in DOMAIN reqs[r].sessionData
        /\ reqs[r].view.festival = reqs[r].sessionData.festivalName

====
